---- MODULE Spec2Model ----
(***************************************************************************)
(* Model of backup_script.py: the interactive configuration loader, the    *)
(* construction of DatabaseBackup (export directory, git working copy) and *)
(* the scheduler loop of main() with its four steps create_backup,         *)
(* commit_to_git, send_to_discord and cleanup_old_backups.                 *)
(*                                                                         *)
(* The external collaborators (terminal input, mysqldump, git, the webhook *)
(* endpoint, the filesystem, the wall clock) are the environment: every    *)
(* outcome they can hand to the program is a choice under \E.              *)
(*                                                                         *)
(* Directories are levels: level 0 is the directory the process starts in, *)
(* level 1 the export directory as resolved at process start, and level    *)
(* k+1 the directory reached by resolving a relative export path from      *)
(* level k.  An absolute export path always resolves to level 1.           *)
(***************************************************************************)
EXTENDS Integers, Sequences, FiniteSets, TLC

\* ------------------------------------------------------------------ bounds
MaxCycles == 2          \* iterations of the scheduler loop that are explored
MaxSeedFiles == 3       \* .sql files already in the export directory at start
MaxDepth == 2           \* nested directory levels that may exist
MaxSweepFaults == 1     \* sweeps in which the environment interferes with a file
StartDay == 19723       \* day number (since 1970-01-01) the process starts on
SlowStepSeconds == 3601 \* how long a git or webhook call blocks on a slow network
MaxRuns == 2            \* times the process is started on the same export directory
MaxSetupCalls == 2      \* calls of _setup_git_repo on one DatabaseBackup

\* ------------------------------------------------------- program constants
SecondsPerHour == 3600
SecondsPerDay == 86400
HttpOk == 200

StartTime == StartDay * SecondsPerDay

None == [kind |-> "None"]
Str(s) == [kind |-> "str", s |-> s]
PathOf(n) == [kind |-> "Path", name |-> n]

\* --------------------------------------------------------- string helpers
Lower(c) == IF c = "Y" THEN "y" ELSE IF c = "N" THEN "n" ELSE c

\* s.lower().startswith('y')
StartsWithY(s) == Len(s) > 0 /\ Lower(s[1]) = "y"

IsSpace(c) == c = " "

RECURSIVE LStrip(_)
LStrip(s) == IF s # <<>> /\ IsSpace(Head(s)) THEN LStrip(Tail(s)) ELSE s

RECURSIVE RStrip(_)
RStrip(s) ==
    IF s # <<>> /\ IsSpace(s[Len(s)]) THEN RStrip(SubSeq(s, 1, Len(s) - 1)) ELSE s

\* str.strip()
Strip(s) == RStrip(LStrip(s))

DigitChars == <<"0", "1", "2", "3", "4", "5", "6", "7", "8", "9">>
IsDigit(c) == \E i \in 1..10 : DigitChars[i] = c
DigitVal(c) == (CHOOSE i \in 1..10 : DigitChars[i] = c) - 1

RECURSIVE DigitsVal(_)
DigitsVal(s) ==
    IF s = <<>> THEN 0 ELSE 10 * DigitsVal(SubSeq(s, 1, Len(s) - 1)) + DigitVal(s[Len(s)])

\* int(text): surrounding whitespace is ignored, one optional sign, then at
\* least one decimal digit; anything else raises ValueError.
ParseInt(text) ==
    LET t == Strip(text)
        signed == t # <<>> /\ t[1] \in {"-", "+"}
        body == IF signed THEN Tail(t) ELSE t
        good == body # <<>> /\ \A i \in 1..Len(body) : IsDigit(body[i])
    IN  IF ~good THEN [ok |-> FALSE, val |-> 0]
        ELSE [ok |-> TRUE,
              val |-> IF signed /\ t[1] = "-" THEN 0 - DigitsVal(body) ELSE DigitsVal(body)]

\* Path.is_absolute() of the path typed at the prompt
IsAbsolute(p) == p # <<>> /\ p[1] = "/"

\* ------------------------------------------------------ strftime
RECURSIVE Digits(_)
Digits(n) == IF n < 10 THEN <<n>> ELSE Digits(n \div 10) \o <<n % 10>>

RECURSIVE Zeros(_)
Zeros(k) == IF k <= 0 THEN <<>> ELSE <<0>> \o Zeros(k - 1)

\* %02d / %04d: zero padded to at least w digits, never truncated
Pad(n, w) == Zeros(w - Len(Digits(n))) \o Digits(n)

\* proleptic Gregorian date of a day number counted from 1970-01-01
CivilFromDays(days) ==
    LET z == days + 719468
        era == z \div 146097
        doe == z - era * 146097
        yoe == (doe - doe \div 1460 + doe \div 36524 - doe \div 146096) \div 365
        doy == doe - (365 * yoe + yoe \div 4 - yoe \div 100)
        mp == (5 * doy + 2) \div 153
        d == doy - (153 * mp + 2) \div 5 + 1
        m == IF mp < 10 THEN mp + 3 ELSE mp - 9
        y == yoe + era * 400 + (IF m <= 2 THEN 1 ELSE 0)
    IN  [year |-> y, month |-> m, day |-> d]

\* strftime("%Y%m%d_%H%M%S") as the pair of digit strings around the "_"
Strftime(t) ==
    LET c == CivilFromDays(t \div SecondsPerDay)
        s == t % SecondsPerDay
    IN  [date |-> Pad(c.year, 4) \o Pad(c.month, 2) \o Pad(c.day, 2),
         time |-> Pad(s \div SecondsPerHour, 2) \o Pad((s % SecondsPerHour) \div 60, 2)
                    \o Pad(s % 60, 2)]

\* f"{db_name}_{timestamp}.sql"
BackupName(db_name, t) ==
    [db |-> db_name, date |-> Strftime(t).date, time |-> Strftime(t).time, ext |-> "sql"]

\* ------------------------------------------------------------------ state
VARIABLES
    pc,           \* position of main(): input, construct, backup, git, discord,
                  \* cleanup, sleep, exited
    exit,         \* why the process ended ("none" while it runs)
    config,       \* the BackupConfig, None before from_user_input returned
    now,          \* wall clock, seconds since the epoch
    cwd,          \* level of the process's current working directory
    depth,        \* directory levels 1..depth exist
    files,        \* regular files: [dir, name, mtime, content]
    repo,         \* the git working copy of the export directory
    backup_file,  \* main()'s backup_file of the running cycle
    steps,        \* the steps of the running cycle so far: <<method, result>>
    trace,        \* what the last step ran and logged
    cycle,        \* iterations of the while loop started so far
    latency,      \* seconds one git or webhook call blocks
    faults,       \* sweeps that met interference so far
    produced,     \* record of the running cycle's create_backup call
    sweep,        \* record of the running cycle's cleanup_old_backups call
    slept,        \* seconds the last time.sleep took
    runs,         \* times the process was started so far
    setup,        \* record of this process's last _setup_git_repo call
    inner,        \* levels below the export directory that hold a .git of their own
    gitrun,       \* record of the running cycle's commit_to_git call
    attached      \* names of the files the running cycle's webhook requests carried

vars == <<pc, exit, config, now, cwd, depth, files, repo, backup_file, steps, trace,
          cycle, latency, faults, produced, sweep, slept, runs, setup, inner, gitrun,
          attached>>

\* --------------------------------------------------- what is typed at the prompts
YesNoInputs == {<<"Y">>, <<"n", "o">>, <<>>}
TextInputs == {<<>>, <<" ">>, <<" ", "u">>}
PathInputs == {<<"/", "b">>, <<"b">>}
IntervalInputs == {<<"0">>, <<"1">>, <<"x">>}
RetentionInputs == {<<"1">>, <<" ", "2">>, <<"-", "1">>}

\* ------------------------------------------------------------- filesystem
SeedMtime(i) == StartTime - SecondsPerHour + (i - 2)

\* backups a previous run left in the export directory
SeedFile(i) ==
    [dir |-> 1, name |-> BackupName(<<"u">>, SeedMtime(i)), mtime |-> SeedMtime(i),
     content |-> "full"]

\* a file in the export directory that is not a backup
OtherFile ==
    [dir |-> 1, name |-> [db |-> <<"n">>, date |-> <<>>, time |-> <<>>, ext |-> "txt"],
     mtime |-> StartTime - 3 * SecondsPerHour, content |-> "full"]

NoRepo == [git |-> FALSE, remotes |-> 0, synced |-> FALSE]
ReadyRepo == [git |-> TRUE, remotes |-> 1, synced |-> TRUE]

NotCalled == [called |-> FALSE]

NoSetup ==
    [called |-> FALSE, calls |-> 0, level |-> 0, present |-> FALSE, metadata |-> FALSE,
     commands |-> <<>>, raised |-> FALSE]

NoGitRun == [called |-> FALSE, outcome |-> "none", level |-> 0, commands |-> <<>>]

Init ==
    /\ pc = "input"
    /\ exit = "none"
    /\ config = None
    /\ now = StartTime
    /\ cwd = 0
    /\ depth \in 0..MaxDepth
    /\ files \in (IF depth = 0 THEN {{}}
                  ELSE {{}, {SeedFile(i) : i \in 1..MaxSeedFiles} \cup {OtherFile}})
    /\ repo \in (IF depth = 0 THEN {NoRepo} ELSE {NoRepo, ReadyRepo})
    /\ backup_file = None
    /\ steps = <<>>
    /\ trace = <<>>
    /\ cycle = 0
    /\ latency \in {0, SlowStepSeconds}
    /\ faults = 0
    /\ produced = NotCalled
    /\ sweep = NotCalled
    /\ slept = 0
    /\ runs = 1
    /\ setup = NoSetup
    /\ inner = {}
    /\ gitrun = NoGitRun
    /\ attached = <<>>

\* the process ends: main() returns after KeyboardInterrupt or re-raises
Terminate(cause) ==
    /\ pc' = "exited"
    /\ exit' = cause

\* a step of the cycle ran: its result, and what it ran and logged
Did(step, result, events) ==
    /\ steps' = Append(steps, <<step, result>>)
    /\ trace' = events

\* ------------------------------------------------- BackupConfig.from_user_input
\* the validation of lines 54-58; TRUE when ValueError is raised
Rejects(c) ==
    \/ c.db_user = <<>> \/ c.db_password = <<>> \/ c.db_name = <<>>
    \/ c.backup_interval_hours <= 0 \/ c.retention_period_hours <= 0

FromUserInput(git, discord, user, password, name, dir, url, interval, retention) ==
    LET use_discord == StartsWithY(discord)
        ih == ParseInt(interval)
        rh == ParseInt(retention)
        c == [use_git |-> StartsWithY(git),
              use_discord |-> use_discord,
              db_user |-> Strip(user),
              db_password |-> Strip(password),
              db_name |-> Strip(name),
              export_dir |-> Strip(dir),
              webhook_url |-> IF use_discord THEN Str(Strip(url)) ELSE None,
              backup_interval_hours |-> ih.val,
              retention_period_hours |-> rh.val]
    IN  IF ~ih.ok \/ ~rh.ok \/ Rejects(c) THEN None ELSE c

LoadConfig ==
    /\ pc = "input"
    /\ \E git \in YesNoInputs, discord \in YesNoInputs, user \in TextInputs,
          password \in TextInputs, name \in TextInputs, dir \in PathInputs,
          url \in TextInputs, interval \in IntervalInputs,
          retention \in RetentionInputs :
          LET c == FromUserInput(git, discord, user, password, name, dir, url,
                                 interval, retention)
          IN  IF c = None
              THEN /\ Terminate("ValueError in from_user_input")
                   /\ trace' = <<"error: Configuration error", "error: Unexpected error">>
                   /\ UNCHANGED config
              ELSE /\ pc' = "construct"
                   /\ config' = c
                   /\ UNCHANGED <<exit, trace>>
    /\ UNCHANGED <<now, cwd, depth, files, repo, backup_file, steps, cycle, latency, faults,
                   produced, sweep, slept, runs, setup, inner, gitrun, attached>>

\* ----------------------------------------------------------- path resolution
\* level of the directory the configured export_dir names when resolved now
Resolve(level) == IF IsAbsolute(config.export_dir) THEN 1 ELSE level + 1

DirExists(level) == level <= depth

FileAt(level, name) == {f \in files : f.dir = level /\ f.name = name}

\* ------------------------------------------------- DatabaseBackup.__init__
GitSetupOutcomes == {"init failed", "remote add failed", "pull failed", "ok"}

\* the working copy after _setup_git_repo ran its commands with this outcome
SetupRepo(outcome) ==
    [git |-> outcome # "init failed",
     remotes |-> IF outcome \in {"pull failed", "ok"} THEN 1 ELSE 0,
     synced |-> outcome = "ok"]

\* _setup_git_repo re-raises the CalledProcessError it logged
SetupGitRaises(outcome) == outcome # "ok"

\* the .git directory export_dir / '.git' names when resolved to this level
GitDirAt(level) == IF level = 1 THEN repo.git ELSE level \in inner

\* the git commands _setup_git_repo runs, in order, up to the first that fails
SetupCommands(outcome) ==
    CASE outcome = "init failed" -> <<"git init">>
      [] outcome = "remote add failed" -> <<"git init", "git remote add">>
      [] OTHER -> <<"git init", "git remote add", "git pull">>

\* _setup_git_repo, called with the directory levels of dirs in existence;
\* resume is where its caller goes on when it returns
SetupGitRepo(resume, dirs) ==
    LET level == Resolve(cwd)
        called == [called |-> TRUE, calls |-> setup.calls + 1, level |-> level,
                   present |-> GitDirAt(level), metadata |-> repo.git,
                   commands |-> <<>>, raised |-> FALSE]
    IN  IF GitDirAt(level)
        THEN /\ pc' = resume
             /\ setup' = called
             /\ UNCHANGED <<cwd, repo, inner, exit, trace>>
        ELSE IF level > dirs
        THEN \* os.chdir raises FileNotFoundError, which line 92 does not name
             /\ Terminate("OSError in _setup_git_repo")
             /\ trace' = <<"error: Unexpected error">>
             /\ setup' = [called EXCEPT !.raised = TRUE]
             /\ UNCHANGED <<cwd, repo, inner>>
        ELSE \E outcome \in GitSetupOutcomes :
               /\ cwd' = level
               /\ IF level = 1
                  THEN repo' = SetupRepo(outcome) /\ UNCHANGED inner
                  ELSE /\ inner' = IF SetupRepo(outcome).git THEN inner \cup {level} ELSE inner
                       /\ UNCHANGED repo
               /\ setup' = [called EXCEPT !.commands = SetupCommands(outcome),
                                          !.raised = SetupGitRaises(outcome)]
               /\ IF SetupGitRaises(outcome)
                  THEN /\ Terminate("CalledProcessError in _setup_git_repo")
                       /\ trace' = <<"git " \o outcome, "error: Git setup failed",
                                     "error: Unexpected error">>
                  ELSE /\ pc' = resume
                       /\ trace' = <<"info: Git repository initialized successfully">>
                       /\ UNCHANGED exit

Construct ==
    /\ pc = "construct"
    \* mkdir(parents=True, exist_ok=True)
    /\ depth' = IF depth = 0 THEN 1 ELSE depth
    /\ IF config.use_git
       THEN SetupGitRepo("backup", IF depth = 0 THEN 1 ELSE depth)
       ELSE /\ pc' = "backup"
            /\ UNCHANGED <<cwd, repo, exit, trace, setup, inner>>
    /\ UNCHANGED <<config, now, files, backup_file, steps, cycle, latency, faults, produced,
                   sweep, slept, runs, gitrun, attached>>

\* _setup_git_repo called once more on the DatabaseBackup main() constructed
SetupGitRepoAgain ==
    /\ pc = "backup"
    /\ steps = <<>>
    /\ setup.called
    /\ setup.calls < MaxSetupCalls
    /\ SetupGitRepo("backup", depth)
    /\ UNCHANGED <<config, now, depth, files, backup_file, steps, cycle, latency, faults,
                   produced, sweep, slept, runs, gitrun, attached>>

\* -------------------------------------------------------- blocking calls
\* a call that blocks for d seconds
Elapse(d) == now' = now + d

\* ---------------------------------------------------------- create_backup
\* What subprocess.run(command, stdout=backup_file.open('w'), check=True,
\* capture_output=True) can hand back:
\*   "open error"  backup_file.open('w') raises OSError, nothing is created;
\*   "arg error"   the file is open, run() raises ValueError: CPython's
\*                 subprocess.run refuses stdout= together with
\*                 capture_output=True, so there every call that opened the
\*                 file ends this way; the outcomes below are those of a
\*                 run() that accepts the arguments;
\*   "exec error"  the file is open, mysqldump cannot be started (OSError);
\*   "nonzero"     mysqldump ran and exited non-zero (CalledProcessError);
\*   "ok"          mysqldump ran and exited 0.
DumpOutcomes == {"open error", "arg error", "exec error", "nonzero", "ok"}

DumpException(outcome) ==
    CASE outcome = "ok" -> "none"
      [] outcome = "nonzero" -> "CalledProcessError"
      [] outcome = "arg error" -> "ValueError"
      [] OTHER -> "OSError"

\* line 115: except subprocess.CalledProcessError
CreateBackupCatches(exc) == exc = "CalledProcessError"

\* what create_backup hands to main(): the path, None, or the exception
CreateBackupResult(outcome, name) ==
    IF DumpException(outcome) = "none" THEN PathOf(name)
    ELSE IF CreateBackupCatches(DumpException(outcome)) THEN None
    ELSE [kind |-> "raise", exc |-> DumpException(outcome)]

\* a main() that sweeps whether or not create_backup returned a path
NextAfterBackupSweepingAnyway(result) ==
    IF result = None THEN "cleanup"
    ELSE IF config.use_git THEN "git"
    ELSE IF config.use_discord THEN "discord"
    ELSE "cleanup"

\* main(): what follows create_backup
NextAfterBackup(result) ==
    IF result = None THEN "sleep"
    ELSE IF config.use_git THEN "git"
    ELSE IF config.use_discord THEN "discord"
    ELSE "cleanup"

\* the file of that name is created, or replaced when it exists
Written(level, name, t, content) ==
    (files \ FileAt(level, name))
        \cup {[dir |-> level, name |-> name, mtime |-> t, content |-> content]}

\* the export directory after the call: open('w') leaves an empty file, to
\* which mysqldump then writes what it writes (all of the dump, or the part
\* it got to, possibly nothing, before it failed)
FilesAfterDump(outcome, level, name, t) ==
    IF outcome = "open error" THEN files
    ELSE IF outcome = "ok" THEN Written(level, name, t, "full")
    ELSE IF outcome = "nonzero" THEN Written(level, name, t, "partial")
    ELSE Written(level, name, t, "empty")

CreateBackup ==
    /\ pc = "backup"
    /\ cycle < MaxCycles
    /\ LET name == BackupName(config.db_name, now)
           level == Resolve(cwd)
       IN  \E outcome \in DumpOutcomes :
             LET result == CreateBackupResult(outcome, name)
             IN  /\ ~DirExists(level) => outcome = "open error"
                 /\ files' = FilesAfterDump(outcome, level, name, now)
                 /\ Elapse(0)
                 /\ produced' = [called |-> TRUE, outcome |-> outcome, level |-> level,
                                 name |-> name, before |-> files, result |-> result]
                 /\ IF result.kind = "raise"
                    THEN /\ backup_file' = None
                         /\ Terminate(result.exc \o " in create_backup")
                         /\ Did("create_backup", "raised", <<"error: Unexpected error">>)
                    ELSE /\ backup_file' = result
                         /\ pc' = NextAfterBackup(result)
                         /\ IF result = None
                            THEN Did("create_backup", "failed", <<"error: Backup failed">>)
                            ELSE Did("create_backup", "ok", <<"info: Backup created">>)
                         /\ UNCHANGED exit
    /\ cycle' = cycle + 1
    /\ sweep' = NotCalled
    /\ UNCHANGED <<config, cwd, depth, repo, latency, faults, slept, runs, setup, inner,
                   gitrun, attached>>

\* ----------------------------------------------------------- commit_to_git
GitOutcomes == {"chdir failed", "add failed", "commit failed", "push failed", "ok"}

GitException(outcome) ==
    CASE outcome = "ok" -> "none"
      [] outcome = "chdir failed" -> "OSError"
      [] OTHER -> "CalledProcessError"

\* a commit_to_git whose commands run without check=True
GitCommandsUnchecked(outcome) ==
    IF outcome = "chdir failed" THEN <<>> ELSE <<"git add", "git commit", "git push">>

\* the git commands one call runs, in order, up to the first that fails
GitCommands(outcome) ==
    CASE outcome = "chdir failed" -> <<>>
      [] outcome = "add failed" -> <<"git add">>
      [] outcome = "commit failed" -> <<"git add", "git commit">>
      [] OTHER -> <<"git add", "git commit", "git push">>

\* a commit_to_git whose except clause is missing
CommitToGitCatchesNothing(exc) == FALSE

\* line 157: except subprocess.CalledProcessError
CommitToGitCatches(exc) == exc = "CalledProcessError"

\* main(): what follows commit_to_git once it returned
NextAfterGit == IF config.use_discord THEN "discord" ELSE "cleanup"

CommitToGit ==
    /\ pc = "git"
    /\ LET level == Resolve(cwd)
       IN  \E outcome \in GitOutcomes :
             LET exc == GitException(outcome)
             IN  /\ outcome = "chdir failed" <=> ~DirExists(level)
                 \* the path handed to git add is resolved from the new cwd
                 /\ DirExists(level) /\ FileAt(Resolve(level), backup_file.name) = {}
                        => outcome = "add failed"
                 /\ repo.remotes = 0 => outcome # "ok"
                 /\ cwd' = IF outcome = "chdir failed" THEN cwd ELSE level
                 /\ Elapse(IF outcome = "chdir failed" THEN 0 ELSE latency)
                 /\ gitrun' = [called |-> TRUE, outcome |-> outcome, level |-> level,
                               commands |-> GitCommands(outcome)]
                 /\ IF exc = "none" \/ CommitToGitCatches(exc)
                    THEN /\ pc' = NextAfterGit
                         /\ IF exc = "none"
                            THEN Did("commit_to_git", "ok",
                                     GitCommands(outcome) \o <<"info: Backup pushed to Git">>)
                            ELSE Did("commit_to_git", "failed",
                                     GitCommands(outcome) \o <<"error: Git operations failed">>)
                         /\ UNCHANGED exit
                    ELSE /\ Terminate(exc \o " in commit_to_git")
                         /\ Did("commit_to_git", "raised",
                                GitCommands(outcome) \o <<"error: Unexpected error">>)
    /\ UNCHANGED <<config, depth, files, repo, backup_file, cycle, latency, faults, produced,
                   sweep, slept, runs, setup, inner, attached>>

\* --------------------------------------------------------- send_to_discord
HttpStatuses == {200, 204, 404, 500}
WebhookOutcomes == {"read error", "transport error", "response"}

WebhookException(outcome) ==
    CASE outcome = "response" -> "none"
      [] outcome = "read error" -> "OSError"
      [] OTHER -> "Exception"

\* line 121: nothing is sent unless enabled and a URL is present
WebhookEnabled ==
    config.use_discord /\ config.webhook_url # None /\ config.webhook_url.s # <<>>

\* a check that takes every 2xx response for success
WebhookSucceededAny2xx(status) == status >= 200 /\ status < 300

\* line 136
WebhookSucceeded(status) == status = HttpOk

\* line 141: except Exception
SendToDiscordCatches(exc) == TRUE

\* str(status_code)
RECURSIVE StatusText(_)
StatusText(n) ==
    IF n < 10 THEN DigitChars[n + 1] ELSE StatusText(n \div 10) \o DigitChars[(n % 10) + 1]

\* what one call does and logs
WebhookTrace(outcome, status) ==
    CASE outcome = "read error" -> <<"error: Discord upload failed">>
      [] outcome = "transport error" -> <<"webhook request", "error: Discord upload failed">>
      [] OTHER -> <<"webhook request", "response " \o StatusText(status),
                    IF WebhookSucceeded(status) THEN "info: Backup sent to Discord"
                    ELSE "error: Discord webhook failed: " \o StatusText(status)>>

SendToDiscord ==
    /\ pc = "discord"
    /\ IF ~WebhookEnabled
       THEN /\ pc' = "cleanup"
            /\ Did("send_to_discord", "skipped", <<>>)
            /\ UNCHANGED <<now, exit, attached>>
       ELSE \E outcome \in WebhookOutcomes, status \in HttpStatuses :
              LET exc == WebhookException(outcome)
              IN  \* read_bytes resolves the path from the current directory
                  /\ FileAt(Resolve(cwd), backup_file.name) = {} => outcome = "read error"
                  /\ outcome # "response" => status = HttpOk
                  /\ Elapse(IF outcome = "read error" THEN 0 ELSE latency)
                  /\ attached' = IF outcome = "read error" THEN attached
                                 ELSE Append(attached, backup_file.name)
                  /\ IF exc = "none" \/ SendToDiscordCatches(exc)
                     THEN /\ pc' = "cleanup"
                          /\ Did("send_to_discord",
                                 IF exc = "none" /\ WebhookSucceeded(status) THEN "ok"
                                 ELSE "failed",
                                 WebhookTrace(outcome, status))
                          /\ UNCHANGED exit
                     ELSE /\ Terminate(exc \o " in send_to_discord")
                          /\ Did("send_to_discord", "raised", <<"error: Unexpected error">>)
    /\ UNCHANGED <<config, cwd, depth, files, repo, backup_file, cycle, latency, faults,
                   produced, sweep, slept, runs, setup, inner, gitrun>>

\* ---------------------------------------------------- cleanup_old_backups
\* line 164: export_dir.glob('*.sql'), resolved from the current directory;
\* a directory that does not exist yields nothing
Globbed(level) == {f \in files : f.dir = level /\ f.name.ext = "sql"}

\* line 162
Cutoff(t) == t - config.retention_period_hours * SecondsPerHour

\* a comparison that also takes the file modified exactly at the cutoff
ExpiredAtCutoff(f, cutoff) == f.mtime <= cutoff

\* line 165
Expired(f, cutoff) == f.mtime < cutoff

\* What the environment can do to one file during a sweep:
\*   "gone before stat"    removed by someone else after the enumeration and
\*                         before stat(): FileNotFoundError at line 165;
\*   "gone before unlink"  removed after stat(): FileNotFoundError at unlink;
\*   "unlink denied"       unlink raises PermissionError, the file stays.
SweepFaults == {"gone before stat", "gone before unlink", "unlink denied"}

\* lines 166-170: the try block holds unlink() alone, stat() is outside it
SweepCatches(fault) == fault \in {"gone before unlink", "unlink denied"}

CleanupOldBackups ==
    /\ pc = "cleanup"
    /\ LET level == Resolve(cwd)
           cutoff == Cutoff(now)
           listed == Globbed(level)
       IN  \E faulty \in {{}} \cup {{f} : f \in listed} :
             /\ faulty # {} => faults < MaxSweepFaults
             /\ faults' = faults + Cardinality(faulty)
             /\ \E fault \in [faulty -> SweepFaults] :
                  LET raising == {f \in faulty : ~SweepCatches(fault[f])}
                      others == {f \in listed \ raising : Expired(f, cutoff)}
                  IN  \* the loop takes the files in directory order; an exception
                      \* that leaves it cuts off the files it had not reached yet
                      \E reached \in (IF raising = {} THEN {listed} ELSE SUBSET others) :
                        LET deleted == {f \in reached : Expired(f, cutoff) /\ f \notin faulty}
                            failed == {f \in reached \cap faulty : Expired(f, cutoff)}
                            vanished == {f \in faulty : fault[f] # "unlink denied"}
                        IN  /\ files' = files \ (deleted \cup vanished)
                            /\ sweep' = [called |-> TRUE, level |-> level, cutoff |-> cutoff,
                                         before |-> files, listed |-> listed,
                                         deleted |-> deleted, failed |-> failed,
                                         faulty |-> faulty, raised |-> raising # {}]
                            /\ IF raising = {}
                               THEN /\ pc' = "sleep"
                                    /\ Did("cleanup_old_backups", "ok",
                                           [f \in 1..Cardinality(failed) |-> "error: Cleanup failed"])
                                    /\ UNCHANGED exit
                               ELSE /\ Terminate("OSError in cleanup_old_backups")
                                    /\ Did("cleanup_old_backups", "raised",
                                           <<"error: Unexpected error">>)
    /\ UNCHANGED <<config, now, cwd, depth, repo, backup_file, cycle, latency, produced,
                   slept, runs, setup, inner, gitrun, attached>>

\* ------------------------------------------------------------------ sleep
\* lines 189-191: wait_minutes = hours * 60; time.sleep(wait_minutes * 60)
SleepSeconds == config.backup_interval_hours * 60 * 60

Sleep ==
    /\ pc = "sleep"
    /\ now' = now + SleepSeconds
    /\ slept' = SleepSeconds
    /\ pc' = "backup"
    /\ steps' = <<>>
    /\ trace' = <<>>
    /\ backup_file' = None
    /\ produced' = NotCalled
    /\ sweep' = NotCalled
    /\ gitrun' = NoGitRun
    /\ attached' = <<>>
    /\ UNCHANGED <<exit, config, cwd, depth, files, repo, cycle, latency, faults, runs, setup,
                   inner>>

Interrupt ==
    /\ pc # "exited"
    /\ Terminate("KeyboardInterrupt")
    /\ trace' = Append(trace, "info: Backup process stopped by user")
    /\ UNCHANGED <<config, now, cwd, depth, files, repo, backup_file, steps, cycle, latency,
                   faults, produced, sweep, slept, runs, setup, inner, gitrun, attached>>

Next ==
    \/ LoadConfig
    \/ Construct
    \/ CreateBackup
    \/ CommitToGit
    \/ SendToDiscord
    \/ CleanupOldBackups
    \/ Sleep
    \/ Interrupt

Spec == Init /\ [][Next]_vars

\* ------------------------------------------------------------- startups
\* the process is started again on the filesystem the last run left
Restart ==
    /\ pc = "exited"
    /\ runs < MaxRuns
    /\ runs' = runs + 1
    /\ pc' = "input"
    /\ exit' = "none"
    /\ config' = None
    /\ cwd' = 0
    /\ backup_file' = None
    /\ steps' = <<>>
    /\ trace' = <<>>
    /\ produced' = NotCalled
    /\ sweep' = NotCalled
    /\ setup' = NoSetup
    /\ gitrun' = NoGitRun
    /\ attached' = <<>>
    /\ slept' = 0
    /\ UNCHANGED <<now, depth, files, repo, inner, cycle, latency, faults>>

\* startups alone: the configuration is read and the DatabaseBackup is
\* constructed, _setup_git_repo may be called again, the process is
\* interrupted or ends and is started again
StartupNext ==
    \/ LoadConfig
    \/ Construct
    \/ SetupGitRepoAgain
    \/ Interrupt
    \/ Restart

StartupSpec == Init /\ [][StartupNext]_vars

\* ================================================================ claims
Last(q) == q[Len(q)]
Has(q, x) == \E i \in 1..Len(q) : q[i] = x

Downstream == {"commit_to_git", "send_to_discord", "cleanup_old_backups"}

\* the step that just ran (no step of the cycle ran yet: "")
LastStep == IF steps = <<>> THEN "" ELSE Last(steps)[1]

\* C1: in every cycle commit_to_git, send_to_discord and cleanup_old_backups
\* run only after create_backup of that cycle returned a path; in a cycle
\* whose create_backup failed none of the three runs at all.
C1_DownstreamNeedsArtifact ==
    /\ \A i \in 1..Len(steps) :
          steps[i][1] \in Downstream => i > 1 /\ steps[1] = <<"create_backup", "ok">>
    /\ pc \in {"git", "discord", "cleanup"} =>
          /\ steps # <<>> /\ steps[1] = <<"create_backup", "ok">>
          /\ backup_file # None
    /\ (produced.called /\ produced.result.kind # "Path") =>
          \A i \in 1..Len(steps) : steps[i][1] \notin Downstream

\* a second cycle whose create_backup failed has come to its sleep
C1_Witness ==
    /\ pc = "sleep"
    /\ cycle = 2
    /\ steps = << <<"create_backup", "failed">> >>

\* C2: after a backup failure of either stated kind (mysqldump exits
\* non-zero, the file cannot be opened) the process is not ended by it: the
\* call returned None and the loop goes to its sleep.
C2_BackupFailureKeepsLoop ==
    (produced.called /\ produced.outcome \in {"nonzero", "open error"}) =>
        /\ produced.result = None
        /\ exit \in {"none", "KeyboardInterrupt"}

\* C3: when mysqldump exits non-zero create_backup returns None and the
\* files are those that were there before the call.
C3_FailedDumpLeavesNoFile ==
    (produced.called /\ produced.outcome = "nonzero") =>
        /\ produced.result = None
        /\ files = produced.before

\* a git command of the commit_to_git call that just ran exited non-zero
GitSubStepFailed ==
    /\ LastStep = "commit_to_git"
    /\ trace # <<>> /\ trace[1] = "git add"
    /\ ~Has(trace, "info: Backup pushed to Git")

\* the send_to_discord call that just ran did not deliver the file
WebhookFailed ==
    /\ LastStep = "send_to_discord"
    /\ Last(steps)[2] # "skipped"
    /\ ~Has(trace, "info: Backup sent to Discord")

\* the file create_backup wrote is there, and so is every file that was
\* there before the call
NothingDeleted ==
    /\ FileAt(produced.level, produced.name) # {}
    /\ \A f \in produced.before :
          f \in files \/ (f.dir = produced.level /\ f.name = produced.name)

\* C4: a failed git command of commit_to_git deletes nothing and, unless the
\* user interrupts, does not end the cycle: the next step is send_to_discord
\* with the same backup_file when use_discord is set, else
\* cleanup_old_backups; after send_to_discord, failed or not, the next step
\* is cleanup_old_backups; a cycle that got its artifact reaches its sleep
\* only through cleanup_old_backups.
C4_ArchiverFailureIsolated ==
    /\ (GitSubStepFailed /\ exit # "KeyboardInterrupt") =>
          /\ pc = (IF config.use_discord THEN "discord" ELSE "cleanup")
          /\ exit = "none"
          /\ NothingDeleted
          /\ backup_file = PathOf(produced.name)
    /\ (WebhookFailed /\ exit # "KeyboardInterrupt") => pc = "cleanup" /\ exit = "none"
    /\ \A i \in 1..(Len(steps) - 1) :
          /\ steps[i][1] = "commit_to_git" =>
                steps[i + 1][1] = (IF config.use_discord THEN "send_to_discord"
                                   ELSE "cleanup_old_backups")
          /\ steps[i][1] = "send_to_discord" => steps[i + 1][1] = "cleanup_old_backups"
    /\ (pc = "sleep" /\ steps[1] = <<"create_backup", "ok">>) =>
          /\ LastStep = "cleanup_old_backups"
          /\ config.use_git => steps[2][1] = "commit_to_git"
          /\ config.use_discord => \E i \in 2..Len(steps) : steps[i][1] = "send_to_discord"

\* a cycle in which git add failed and the webhook answered an error has
\* swept and come to its sleep
C4_Witness ==
    /\ pc = "sleep"
    /\ steps = << <<"create_backup", "ok">>, <<"commit_to_git", "failed">>,
                  <<"send_to_discord", "failed">>, <<"cleanup_old_backups", "ok">> >>
    /\ FileAt(produced.level, produced.name) # {}

\* C5: the process ends only on a configuration error or an interruption.
C5_OnlyConfigOrInterruptEnds ==
    pc = "exited" => exit \in {"ValueError in from_user_input", "KeyboardInterrupt"}

\* C6: every configuration the loader returns has non-empty credentials,
\* positive intervals and, when use_discord is set, a non-empty webhook URL.
C6_ConfigInvariant ==
    config # None =>
        /\ config.db_user # <<>> /\ config.db_password # <<>> /\ config.db_name # <<>>
        /\ config.backup_interval_hours > 0 /\ config.retention_period_hours > 0
        /\ config.use_discord =>
              config.webhook_url # None /\ config.webhook_url.s # <<>>

IsDigits(q, n) == Len(q) = n /\ \A i \in 1..n : q[i] \in 0..9

\* C7: when create_backup has just returned a path, the file
\* {db_name}_{8 digits}_{6 digits}.sql is in the export directory the
\* configuration named at process start, and the path returned is its path.
C7_ArtifactInExportDir ==
    steps = << <<"create_backup", "ok">> >> =>
        /\ produced.name.db = config.db_name
        /\ IsDigits(produced.name.date, 8) /\ IsDigits(produced.name.time, 6)
        /\ produced.name.ext = "sql"
        /\ FileAt(1, produced.name) # {}
        /\ backup_file = PathOf(produced.name)

C9_SweepSurvivesFileErrors ==
    sweep.called =>
        /\ ~sweep.raised
        /\ exit \in {"none", "KeyboardInterrupt"}
        /\ \A f \in sweep.listed \ sweep.faulty : f.mtime < sweep.cutoff => f \notin files

Responded(status) == Has(trace, "response " \o StatusText(status))

\* C10: send_to_discord logs success exactly for a 200 response; any other
\* status, a transport error or an unreadable file is logged as an error;
\* in every case the call returns and main() goes on to cleanup_old_backups.
C10_WebhookOutcome ==
    (LastStep = "send_to_discord" /\ exit # "KeyboardInterrupt") =>
        /\ pc = "cleanup" /\ exit = "none"
        /\ Last(steps)[2] \in {"ok", "failed", "skipped"}
        /\ Has(trace, "info: Backup sent to Discord") <=> Responded(HttpOk)
        /\ Last(steps)[2] = "ok" <=> Responded(HttpOk)
        /\ \A status \in HttpStatuses \ {HttpOk} :
              Responded(status) =>
                  Last(trace) = "error: Discord webhook failed: " \o StatusText(status)
        /\ Last(steps)[2] = "failed" =>
              \/ Last(trace) = "error: Discord upload failed"
              \/ \E status \in HttpStatuses \ {HttpOk} :
                    Last(trace) = "error: Discord webhook failed: " \o StatusText(status)

\* the webhook answered 500 and the cycle is about to sweep
C10_Witness ==
    /\ pc = "cleanup"
    /\ Last(steps) = <<"send_to_discord", "failed">>
    /\ Responded(500)

\* C11: _setup_git_repo is idempotent: a call that finds version-control
\* metadata already in the export directory runs no git command; a call
\* that follows one that returned normally raises nothing; the remote
\* "origin" is never registered more than once.
C11_SetupIdempotent ==
    /\ (setup.called /\ setup.metadata) => setup.commands = <<>>
    /\ setup.calls >= 2 => ~setup.raised
    /\ repo.remotes <= 1

IsGitCommand(e) == e \in {"git add", "git commit", "git push"}

\* with use_git unset no git command runs, at startup or in a cycle
GitGated ==
    (config # None /\ ~config.use_git) =>
        /\ ~setup.called /\ ~gitrun.called
        /\ \A i \in 1..Len(steps) : steps[i][1] # "commit_to_git"
        /\ \A i \in 1..Len(trace) : ~IsGitCommand(trace[i])

\* with use_discord unset no webhook request is sent
WebhookGated ==
    (config # None /\ ~config.use_discord) =>
        /\ attached = <<>>
        /\ ~Has(trace, "webhook request")

\* the first cycle, started on an empty export directory with use_git unset
\* and use_discord set, is through: the dump succeeded, the webhook
\* answered 200 and nobody else touched the directory
OneCycleDelivered ==
    /\ pc = "sleep" /\ cycle = 1
    /\ ~config.use_git /\ config.use_discord
    /\ produced.called /\ produced.outcome = "ok"
    /\ {f \in produced.before : f.dir = produced.level} = {}
    /\ Has(steps, <<"send_to_discord", "ok">>)
    /\ sweep.called /\ sweep.faulty = {}

\* C12: the toggles gate the archivers (GitGated, WebhookGated), and after
\* one cycle with use_git unset, use_discord set, a successful dump and a
\* 200 response the export directory holds exactly one file, the artifact,
\* and exactly one webhook request was sent, carrying that artifact.
C12_TogglesGateArchivers ==
    /\ GitGated
    /\ WebhookGated
    /\ OneCycleDelivered =>
          /\ {f.name : f \in {g \in files : g.dir = produced.level}} = {produced.name}
          /\ attached = <<produced.name>>

CycleOrder == <<"create_backup", "commit_to_git", "send_to_discord", "cleanup_old_backups">>

\* position of a step in the fixed order of a cycle
OrderOf(step) == CHOOSE i \in 1..Len(CycleOrder) : CycleOrder[i] = step

\* the steps of the running cycle are in the fixed order, each at most
\* once, and a cycle that got its artifact comes to its sleep with each
\* enabled archiver and then the sweep behind it
StepsInOrder ==
    /\ \A i \in 1..(Len(steps) - 1) : OrderOf(steps[i][1]) < OrderOf(steps[i + 1][1])
    /\ (pc = "sleep" /\ steps[1] = <<"create_backup", "ok">>) =>
          /\ Last(steps)[1] = "cleanup_old_backups"
          /\ config.use_git <=> Len(steps) >= 2 /\ steps[2][1] = "commit_to_git"
          /\ config.use_discord <=>
                \E i \in 2..Len(steps) : steps[i][1] = "send_to_discord"

\* every create_backup but the first comes straight after one sleep of
\* backup_interval_hours * 3600 seconds
SleepBeforeBackup ==
    (pc = "backup" /\ cycle >= 1) =>
        steps = <<>> /\ slept = config.backup_interval_hours * 3600

\* C13: in a cycle whose backup succeeds the steps run in the order
\* commit_to_git (if enabled), send_to_discord (if enabled),
\* cleanup_old_backups, sleep, the sweep exactly once; every cycle,
\* successful or not, ends with one sleep of backup_interval_hours * 3600
\* seconds before the next create_backup: only an interruption keeps a
\* cycle that was started from reaching its sleep.
C13_CycleOrderAndSleep ==
    /\ StepsInOrder
    /\ SleepBeforeBackup
    /\ (produced.called /\ pc = "exited") => exit = "KeyboardInterrupt"

IsPrefix(p, q) == Len(p) <= Len(q) /\ \A i \in 1..Len(p) : p[i] = q[i]

\* C14: one commit_to_git call runs git add, git commit, git push in that
\* order, each at most once, and stops at the first that exits non-zero:
\* after a failed add neither commit nor push runs, after a failed commit
\* no push; the failure is logged and the call returns to main().
C14_GitStopsAtFirstFailure ==
    gitrun.called =>
        /\ IsPrefix(gitrun.commands, <<"git add", "git commit", "git push">>)
        /\ gitrun.outcome = "add failed" =>
              /\ Has(gitrun.commands, "git add")
              /\ ~Has(gitrun.commands, "git commit") /\ ~Has(gitrun.commands, "git push")
        /\ gitrun.outcome = "commit failed" =>
              /\ Has(gitrun.commands, "git commit") /\ ~Has(gitrun.commands, "git push")
        /\ gitrun.outcome \in {"push failed", "ok"} => Len(gitrun.commands) = 3
        /\ (gitrun.outcome \in {"add failed", "commit failed", "push failed"}
              /\ LastStep = "commit_to_git" /\ exit # "KeyboardInterrupt") =>
              /\ Last(steps)[2] = "failed"
              /\ Last(trace) = "error: Git operations failed"
              /\ pc \in {"discord", "cleanup"} /\ exit = "none"

\* git commit exited non-zero and main() went on to the next step
C14_Witness ==
    /\ gitrun.called /\ gitrun.outcome = "commit failed"
    /\ gitrun.commands = <<"git add", "git commit">>
    /\ LastStep = "commit_to_git"
    /\ pc \in {"discord", "cleanup"}

\* C15: a sweep that nobody interferes with deletes every regular file
\* directly inside the directory it scans whose modification time is
\* strictly before the cutoff, whatever the file's name or extension.
C15_SweepTakesEveryFile ==
    (sweep.called /\ sweep.faulty = {}) =>
        \A f \in sweep.before :
            (f.dir = sweep.level /\ f.mtime < sweep.cutoff) => f \notin files

\* C16: create_backup writes into, the git commands run in, and
\* cleanup_old_backups scans one and the same directory, the export
\* directory as resolved when the process started (level 1), whether the
\* configured path is absolute or relative and whether use_git is set.
C16_OneExportDirectory ==
    /\ produced.called => produced.level = 1
    /\ (setup.called /\ setup.commands # <<>>) => setup.level = 1
    /\ (gitrun.called /\ gitrun.commands # <<>>) => gitrun.level = 1
    /\ sweep.called => sweep.level = 1

\* the working copy of the export directory has "origin" registered and
\* was synchronized with origin/main
RepoReady == repo.git /\ repo.remotes = 1 /\ repo.synced

\* C17: over any number of starts on the same export directory, when
\* _setup_git_repo has returned normally the working copy has its remote
\* and was synchronized, so no start with use_git set comes to its cycles
\* on a working copy an earlier, failed setup left half made.
C17_SetupLeavesRepoReady ==
    /\ (setup.called /\ ~setup.raised /\ setup.level = 1) => RepoReady
    /\ (pc = "backup" /\ config.use_git /\ setup.calls = 1) => RepoReady

\* C18: the sweep of a cycle does not delete the file create_backup wrote
\* in that cycle, however long commit_to_git and send_to_discord blocked in
\* between: with nobody else touching the directory the artifact is there
\* when the sweep is through.
C18_SweepSparesOwnArtifact ==
    (produced.called /\ produced.outcome = "ok" /\ sweep.called /\ sweep.faulty = {}) =>
        /\ FileAt(produced.level, produced.name) # {}
        /\ \A f \in sweep.deleted : ~(f.dir = produced.level /\ f.name = produced.name)

====
